---------------------------- MODULE Spec2Model ----------------------------
(***************************************************************************)
(* Delivery / delivery-item state and quantity reconciliation of the       *)
(* warehouse backend (src/main.py, src/schemas.py).                        *)
(*                                                                         *)
(* The two MongoDB collections db["delivery"] and db["deliveryitem"] are   *)
(* functions from ObjectIds to documents.  Every endpoint is an action.    *)
(* The endpoints are plain `def` handlers, which FastAPI runs on a thread  *)
(* pool, so requests of different clients interleave between two database  *)
(* calls; each database call (find_one, update_one, insert, aggregate) is  *)
(* one atomic step.  receive_items makes several database calls and is     *)
(* modelled call by call; the other handlers make one write, preceded at   *)
(* most by a read of a document's existence (documents are never deleted), *)
(* and are modelled as one step each.                                      *)
(*                                                                         *)
(* Left out: created_at / updated_at time stamps, supplier, reference,     *)
(* expectedDate, meta, product_id, variant_id and notes (free data that no *)
(* handler reads), the product / variant catalogue, and the handler-local  *)
(* total_added of receive_items, which is written and never read.          *)
(***************************************************************************)
EXTENDS Integers, Sequences, FiniteSets, TLC

\* ------------------------------------------------------------------ bounds
MaxDeliveries == 2      \* deliveries ever created
MaxItems == 1           \* delivery items ever created
MaxBatch == 2           \* entries of one receive payload
MaxQty == 1             \* largest qty of one receive entry (smallest is -1)
MaxExpected == 0        \* largest expectedQty of add item (smallest is -1)
MaxReceived == 1        \* cap of an item's receivedQty (guards the counter)
MaxLimit == 2           \* largest limit of a list request (smallest is 1)
MaxCalls == 4           \* requests the clients send in one run

Clients == {"c1", "c2"}

\* ------------------------------------------------------------- identifiers
\* An ObjectId is a 12-byte value the store generates, unique over all
\* collections: here the collection's name and a serial number.
DeliveryOids == {<<"delivery", n>> : n \in 1..MaxDeliveries}
ItemOids == {<<"deliveryitem", n>> : n \in 1..MaxItems}
ObjectIds == DeliveryOids \cup ItemOids

\* An identifier as the client sends it, a string.  bson's ObjectId(s)
\* accepts exactly the strings of 24 hexadecimal digits, in either letter
\* case, and str(ObjectId) renders lower case: a string is the rendering of
\* an ObjectId (hex), possibly with its letters in upper case, or malformed.
Malformed == [valid |-> FALSE, hex |-> <<"none", 0>>, upper |-> FALSE]
IdStrings ==
    {[valid |-> TRUE, hex |-> o, upper |-> u] : o \in ObjectIds, u \in BOOLEAN}
        \cup {Malformed}

InvalidID == <<"invalid", 0>>

\* str(ObjectId): the lower-case rendering.
str(o) == [valid |-> TRUE, hex |-> o, upper |-> FALSE]

\* oid(id_str): the ObjectId of a well-formed string, HTTP 400 otherwise.
oid(id_str) == IF id_str.valid THEN id_str.hex ELSE InvalidID

\* ---------------------------------------------------------------- statuses
DeliveryStatus == {"DRAFT", "PENDING", "IN_QUALITY_CHECK", "COMPLETED"}
DeliveryItemStatus == {"PENDING", "RECEIVED", "QUALITY_CHECK", "APPROVED", "STORED"}

NoLocation == "None"
Locations == {"A1/3"}

\* ------------------------------------------------------------------- state
VARIABLES
    delivery,       \* db["delivery"]: ObjectId -> [status, receivedQty]
    deliveryitem,   \* db["deliveryitem"]: ObjectId -> [delivery_id, expectedQty, receivedQty, status, location]
    pc,             \* per client: where its receive_items call stands
    req,            \* per client: delivery_id, the payload entries applied (done) and not yet read (left)
    it,             \* per client: receive_items' loop variable, the entry being processed
    item,           \* per client: receive_items' locals item["_id"], new_received, status
    new_total,      \* per client: receive_items' local new_total
    resp,           \* the response of the call that finished last
    calls,          \* requests sent so far
    listed,         \* the list_deliveries call answered last, with the list it returned
    applied         \* history: per item, the sum of the qty of the receive entries written to it

vars == <<delivery, deliveryitem, pc, req, it, item, new_total, resp, calls, listed, applied>>

NoReq == [delivery_id |-> Malformed, done |-> 0, left |-> 0]
NoEntry == [itemId |-> Malformed, qty |-> 0]
NoItem == [_id |-> InvalidID, new_received |-> 0, status |-> "PENDING"]

\* A response: the handler that answered, the HTTP status code and, of an
\* error, its detail.  The body of a 200 is the document as the store holds
\* it when the handler reads it back.
Response(op, code, detail) == [op |-> op, code |-> code, detail |-> detail]

NoResp == Response("none", 0, "")

\* return serialize(doc)
OK(op) == Response(op, 200, "")

\* raise HTTPException(status_code, detail)
HTTPException(op, code, detail) == Response(op, code, detail)

\* status_in of list_deliveries: absent (None), or the statuses given.
NoFilter == [given |-> FALSE, values |-> {}]
NoList == [called |-> FALSE, status_in |-> NoFilter, limit |-> 0, docs |-> <<>>]

Init ==
    /\ listed = NoList
    /\ applied = [o \in {} |-> 0]
    /\ delivery = [o \in {} |-> 0]
    /\ deliveryitem = [o \in {} |-> 0]
    /\ pc = [c \in Clients |-> "idle"]
    /\ req = [c \in Clients |-> NoReq]
    /\ it = [c \in Clients |-> NoEntry]
    /\ item = [c \in Clients |-> NoItem]
    /\ new_total = [c \in Clients |-> 0]
    /\ resp = NoResp
    /\ calls = 0

\* ----------------------------------------------------------- store helpers
\* db[coll].find_one({"_id": o}) finds a document
Found(coll, o) == o \in DOMAIN coll

\* create_document(coll, doc): insert under a fresh ObjectId
Insert(coll, o, doc) == [x \in DOMAIN coll \cup {o} |-> IF x = o THEN doc ELSE coll[x]]

RECURSIVE SumQty(_, _)
\* {"$group": {"_id": None, "sum": {"$sum": "$receivedQty"}}} over the documents S of coll
SumQty(coll, S) ==
    IF S = {} THEN 0
    ELSE LET x == CHOOSE y \in S : TRUE
         IN coll[x].receivedQty + SumQty(coll, S \ {x})

Reply(c, r) == resp' = r

\* A client sends a request.
Call == calls < MaxCalls /\ calls' = calls + 1

Idle(c) == pc[c] = "idle"

\* -------------------------------------------------------------- deliveries
\* The JSON body of POST /deliveries as the client sends it; it may carry
\* fields the request model does not declare.
DeliveryBodies == [status : DeliveryStatus \cup {"RECEIVED"}, receivedQty : 0..MaxReceived]

\* DeliveryCreateRequest: supplier, reference, expectedDate, meta; pydantic
\* drops every field it does not declare, status and receivedQty among them.
DeliveryCreateRequest(body) == [meta |-> "{}"]

\* Mutant of NewDelivery: the status is left to a default of DRAFT.
NewDelivery_draft(payload) == [status |-> "DRAFT", receivedQty |-> 0]

\* Delivery(..., status="PENDING", receivedQty=0, ...)
NewDelivery(payload) == [status |-> "PENDING", receivedQty |-> 0]

\* POST /deliveries
create_delivery(c, body) ==
    /\ Idle(c)
    /\ Call
    /\ Cardinality(DOMAIN delivery) < MaxDeliveries
    /\ LET payload == DeliveryCreateRequest(body)
           new_id == <<"delivery", Cardinality(DOMAIN delivery) + 1>>
       IN /\ delivery' = Insert(delivery, new_id, NewDelivery(payload))
          /\ Reply(c, OK("create_delivery"))
    /\ UNCHANGED <<deliveryitem, pc, req, it, item, new_total, listed, applied>>

\* The JSON body of POST /deliveries/{id}/items as the client sends it.
\* product_id and variant_id are optional: both absent is the free item.
NoRef == "None"
ItemRefs == {[product_id |-> NoRef, variant_id |-> NoRef],
             [product_id |-> "p1", variant_id |-> "v1"]}
\* Fields the request model does not declare: absent (the defaults), or set.
ItemExtras == {[receivedQty |-> 0, status |-> "PENDING"],
               [receivedQty |-> 1, status |-> "STORED"]}
ItemBodies ==
    {[refs |-> r, expectedQty |-> e, receivedQty |-> x.receivedQty, status |-> x.status] :
        r \in ItemRefs, e \in -1..MaxExpected, x \in ItemExtras}

\* DeliveryItemCreateRequest: product_id, variant_id, expectedQty (any int), notes.
DeliveryItemCreateRequest(body) ==
    [product_id |-> body.refs.product_id, variant_id |-> body.refs.variant_id,
     expectedQty |-> body.expectedQty]

\* DeliveryItem(delivery_id=..., expectedQty=payload.expectedQty, receivedQty=0,
\* status="PENDING", location=None); product_id, variant_id and notes are
\* stored as sent and read by no operation.
NewDeliveryItem_received(delivery_id, payload) ==
    [delivery_id |-> delivery_id, expectedQty |-> payload.expectedQty,
     receivedQty |-> 0, status |-> "RECEIVED", location |-> NoLocation]

NewDeliveryItem(delivery_id, payload) ==
    [delivery_id |-> delivery_id, expectedQty |-> payload.expectedQty,
     receivedQty |-> 0, status |-> "PENDING", location |-> NoLocation]

\* A DeliveryItem model without the ge=0 of expectedQty.
DeliveryItemValid_noExpected(doc) == doc.receivedQty >= 0

\* DeliveryItem's field constraints: expectedQty ge=0, receivedQty ge=0.
DeliveryItemValid(doc) == doc.expectedQty >= 0 /\ doc.receivedQty >= 0

\* The request models FastAPI hands to add_delivery_item.
ItemPayloads == {DeliveryItemCreateRequest(body) : body \in ItemBodies}

\* POST /deliveries/{delivery_id}/items, called with the parsed payload
add_delivery_item(c, delivery_id, payload) ==
    /\ Idle(c)
    /\ Call
    /\ UNCHANGED <<delivery, pc, req, it, item, new_total, listed>>
    /\ IF oid(delivery_id) = InvalidID
       THEN /\ Reply(c, HTTPException("add_delivery_item", 400, "Invalid ID"))
            /\ UNCHANGED <<deliveryitem, applied>>
       ELSE IF ~Found(delivery, oid(delivery_id))
       THEN /\ Reply(c, HTTPException("add_delivery_item", 404, "Delivery not found"))
            /\ UNCHANGED <<deliveryitem, applied>>
       ELSE LET doc == NewDeliveryItem(delivery_id, payload)
                new_id == <<"deliveryitem", Cardinality(DOMAIN deliveryitem) + 1>>
            IN IF ~DeliveryItemValid(doc)
               THEN \* pydantic's ValidationError inside the handler: HTTP 500
                    /\ Reply(c, HTTPException("add_delivery_item", 500, "Internal Server Error"))
                    /\ UNCHANGED <<deliveryitem, applied>>
               ELSE /\ Cardinality(DOMAIN deliveryitem) < MaxItems
                    /\ deliveryitem' = Insert(deliveryitem, new_id, doc)
                    /\ applied' = Insert(applied, new_id, 0)
                    /\ Reply(c, OK("add_delivery_item"))

\* ----------------------------------------------------------------- receive
\* ReceiveItemInput: itemId: str, qty: int.  An item is looked up by
\* oid(itemId), so the letter case of an itemId changes nothing, and the id
\* of a delivery names no item any more than the id of an item not yet
\* created: the itemIds sent are the lower-case ids of items, and a
\* malformed one.
Qtys == -1..MaxQty
ItemIdInputs == {str(o) : o \in ItemOids} \cup {Malformed}
ReceiveItemInput == [itemId : ItemIdInputs, qty : Qtys]

\* The documents of deliveryitem that {"delivery_id": delivery_id} matches:
\* a comparison of the stored string with the string of the request.
Match(delivery_id) == {i \in DOMAIN deliveryitem : deliveryitem[i].delivery_id = delivery_id}

\* A receipt capped at the expected quantity.
NewReceived_capped(doc, qty) ==
    IF doc.receivedQty + qty > doc.expectedQty THEN doc.expectedQty
    ELSE doc.receivedQty + qty

\* line 173: new_received = int(item.get("receivedQty", 0)) + int(it.qty)
NewReceived(doc, qty) == doc.receivedQty + qty

\* The status taken from the default instead of the item read.
NewStatus_default(doc, qty) == IF qty > 0 THEN "RECEIVED" ELSE "PENDING"

\* Mutant of NewStatus: only a PENDING item becomes RECEIVED.
NewStatus_pendingOnly(doc, qty) ==
    IF qty > 0 /\ doc.status = "PENDING" THEN "RECEIVED" ELSE doc.status

\* lines 174-176: status = item.get("status", "PENDING"); if it.qty > 0: status = "RECEIVED"
NewStatus(doc, qty) == IF qty > 0 THEN "RECEIVED" ELSE doc.status

\* line 167, for it in payload.items: with `left` entries not yet read, the
\* loop binds `it` to the next one, and ends when there is none.  The
\* payload is data of the request that nothing reads before the loop does,
\* so an entry's value is drawn when the loop reaches it.
NextEntry(c, delivery_id, done, left) ==
    IF left = 0
    THEN /\ pc' = [pc EXCEPT ![c] = "aggregate"]
         /\ it' = [it EXCEPT ![c] = NoEntry]
         /\ req' = [req EXCEPT ![c] = [delivery_id |-> delivery_id, done |-> done, left |-> 0]]
    ELSE \E e \in ReceiveItemInput :
            /\ pc' = [pc EXCEPT ![c] = "find_item"]
            /\ it' = [it EXCEPT ![c] = e]
            /\ req' = [req EXCEPT ![c] =
                    [delivery_id |-> delivery_id, done |-> done, left |-> left - 1]]

\* Mutant of EntryError: the item is looked up by its _id alone.
EntryError_anyDelivery(delivery_id, e) ==
    IF oid(e.itemId) = InvalidID THEN "Invalid ID"
    ELSE IF oid(e.itemId) \notin DOMAIN deliveryitem THEN "Item not found for this delivery"
    ELSE IF e.qty < 0 THEN "qty must be >= 0"
    ELSE ""

\* lines 168-172: what is wrong with entry e of a receive call on delivery_id,
\* "" when nothing is.  The item is looked up by its _id and by the
\* delivery_id string of the request together.
EntryError(delivery_id, e) ==
    IF oid(e.itemId) = InvalidID THEN "Invalid ID"
    ELSE IF oid(e.itemId) \notin Match(delivery_id) THEN "Item not found for this delivery"
    ELSE IF e.qty < 0 THEN "qty must be >= 0"
    ELSE ""

\* The handler ends with response r.
Finish(c, r) ==
    /\ Reply(c, r)
    /\ pc' = [pc EXCEPT ![c] = "idle"]
    /\ req' = [req EXCEPT ![c] = NoReq]
    /\ it' = [it EXCEPT ![c] = NoEntry]
    /\ item' = [item EXCEPT ![c] = NoItem]
    /\ new_total' = [new_total EXCEPT ![c] = 0]

\* Mutant of Abort: a failing entry ends the loop and the call goes on to
\* recompute the aggregate.
Abort_recompute(c, detail) ==
    /\ pc' = [pc EXCEPT ![c] = "aggregate"]
    /\ UNCHANGED <<req, it, item, new_total, resp>>

\* lines 37, 170, 172: raise HTTPException(400, detail) inside the loop ends the call
Abort(c, detail) == Finish(c, HTTPException("receive_items", 400, detail))

\* POST /deliveries/{delivery_id}/receive, lines 163-167: the delivery is
\* looked up and the loop over the payload's entries starts
receive_items(c, delivery_id) ==
    /\ Idle(c)
    /\ Call
    /\ UNCHANGED <<delivery, deliveryitem, item, new_total, listed, applied>>
    /\ IF oid(delivery_id) = InvalidID
       THEN /\ Reply(c, HTTPException("receive_items", 400, "Invalid ID"))
            /\ UNCHANGED <<pc, req, it>>
       ELSE IF ~Found(delivery, oid(delivery_id))
       THEN /\ Reply(c, HTTPException("receive_items", 404, "Delivery not found"))
            /\ UNCHANGED <<pc, req, it>>
       ELSE \E n \in 0..MaxBatch :
               /\ NextEntry(c, delivery_id, 0, n)
               /\ UNCHANGED resp

\* lines 168-176: the entry's item is read and the entry validated
find_item(c) ==
    /\ pc[c] = "find_item"
    /\ UNCHANGED <<delivery, deliveryitem, calls, listed, applied>>
    /\ LET id == oid(it[c].itemId)
           err == EntryError(req[c].delivery_id, it[c])
       IN IF err # ""
          THEN Abort(c, err)
          ELSE /\ NewReceived(deliveryitem[id], it[c].qty) <= MaxReceived
               /\ item' = [item EXCEPT ![c] =
                       [_id |-> id,
                        new_received |-> NewReceived(deliveryitem[id], it[c].qty),
                        status |-> NewStatus(deliveryitem[id], it[c].qty)]]
               /\ pc' = [pc EXCEPT ![c] = "update_item"]
               /\ UNCHANGED <<req, it, new_total, resp>>

\* lines 177-181: update_one({"_id": item["_id"]}, {"$set": {receivedQty, status}}),
\* and the loop goes on
update_item(c) ==
    /\ pc[c] = "update_item"
    /\ deliveryitem' = [deliveryitem EXCEPT ![item[c]._id] =
            [@ EXCEPT !.receivedQty = item[c].new_received, !.status = item[c].status]]
    /\ NextEntry(c, req[c].delivery_id, req[c].done + 1, req[c].left)
    /\ item' = [item EXCEPT ![c] = NoItem]
    /\ applied' = [applied EXCEPT ![item[c]._id] = @ + it[c].qty]
    /\ UNCHANGED <<delivery, new_total, resp, calls, listed>>

\* lines 184-190: the sum of receivedQty over the items the delivery_id matches
aggregate(c) ==
    /\ pc[c] = "aggregate"
    /\ new_total' = [new_total EXCEPT ![c] = SumQty(deliveryitem, Match(req[c].delivery_id))]
    /\ pc' = [pc EXCEPT ![c] = "update_delivery"]
    /\ UNCHANGED <<delivery, deliveryitem, req, it, item, resp, calls, listed, applied>>

\* Mutant of update_delivery: a delivery that has received something is
\* marked RECEIVED along with its new total.
update_delivery_autoStatus(c) ==
    /\ pc[c] = "update_delivery"
    /\ delivery' = [delivery EXCEPT ![oid(req[c].delivery_id)] =
            [@ EXCEPT !.receivedQty = new_total[c],
                      !.status = IF new_total[c] > 0 THEN "RECEIVED" ELSE @]]
    /\ pc' = [pc EXCEPT ![c] = "return"]
    /\ new_total' = [new_total EXCEPT ![c] = 0]
    /\ UNCHANGED <<deliveryitem, req, it, item, resp, calls, listed, applied>>

\* lines 191-194: update_one({"_id": oid(delivery_id)}, {"$set": {"receivedQty": new_total}})
update_delivery(c) ==
    /\ pc[c] = "update_delivery"
    /\ delivery' = [delivery EXCEPT ![oid(req[c].delivery_id)].receivedQty = new_total[c]]
    /\ pc' = [pc EXCEPT ![c] = "return"]
    /\ new_total' = [new_total EXCEPT ![c] = 0]
    /\ UNCHANGED <<deliveryitem, req, it, item, resp, calls, listed, applied>>

\* lines 196-197: the delivery is read again and returned
return_delivery(c) ==
    /\ pc[c] = "return"
    /\ Finish(c, OK("receive_items"))
    /\ UNCHANGED <<delivery, deliveryitem, calls, listed, applied>>

\* ---------------------------------------------------- delivery transitions
\* A guarded state machine: a COMPLETED delivery is not moved back.
SetDeliveryStatus_forwardOnly(c, op, delivery_id, status) ==
    /\ Idle(c)
    /\ Call
    /\ UNCHANGED <<deliveryitem, pc, req, it, item, new_total, listed, applied>>
    /\ IF oid(delivery_id) = InvalidID
       THEN /\ Reply(c, HTTPException(op, 400, "Invalid ID"))
            /\ UNCHANGED delivery
       ELSE IF ~Found(delivery, oid(delivery_id))
       THEN /\ Reply(c, HTTPException(op, 404, "Delivery not found"))
            /\ UNCHANGED delivery
       ELSE IF delivery[oid(delivery_id)].status = "COMPLETED" /\ status # "COMPLETED"
       THEN /\ Reply(c, HTTPException(op, 400, "Invalid transition"))
            /\ UNCHANGED delivery
       ELSE /\ delivery' = [delivery EXCEPT ![oid(delivery_id)].status = status]
            /\ Reply(c, OK(op))

\* update_one({"_id": id}, {"$set": {"status": status}}) and the 404 of no match
SetDeliveryStatus(c, op, delivery_id, status) ==
    /\ Idle(c)
    /\ Call
    /\ UNCHANGED <<deliveryitem, pc, req, it, item, new_total, listed, applied>>
    /\ IF oid(delivery_id) = InvalidID
       THEN /\ Reply(c, HTTPException(op, 400, "Invalid ID"))
            /\ UNCHANGED delivery
       ELSE IF ~Found(delivery, oid(delivery_id))
       THEN /\ Reply(c, HTTPException(op, 404, "Delivery not found"))
            /\ UNCHANGED delivery
       ELSE /\ delivery' = [delivery EXCEPT ![oid(delivery_id)].status = status]
            /\ Reply(c, OK(op))

\* A transition that also moves the delivery's items to QUALITY_CHECK.
send_to_quality_cascade(c, delivery_id) ==
    /\ Idle(c)
    /\ Call
    /\ UNCHANGED <<pc, req, it, item, new_total, listed, applied>>
    /\ IF oid(delivery_id) = InvalidID
       THEN /\ Reply(c, HTTPException("send_to_quality", 400, "Invalid ID"))
            /\ UNCHANGED <<delivery, deliveryitem>>
       ELSE IF ~Found(delivery, oid(delivery_id))
       THEN /\ Reply(c, HTTPException("send_to_quality", 404, "Delivery not found"))
            /\ UNCHANGED <<delivery, deliveryitem>>
       ELSE /\ delivery' = [delivery EXCEPT ![oid(delivery_id)].status = "IN_QUALITY_CHECK"]
            /\ deliveryitem' = [i \in DOMAIN deliveryitem |->
                    IF i \in Match(delivery_id)
                    THEN [deliveryitem[i] EXCEPT !.status = "QUALITY_CHECK"]
                    ELSE deliveryitem[i]]
            /\ Reply(c, OK("send_to_quality"))

\* POST /deliveries/{delivery_id}/send-to-quality
send_to_quality(c, delivery_id) ==
    SetDeliveryStatus(c, "send_to_quality", delivery_id, "IN_QUALITY_CHECK")

\* POST /deliveries/{delivery_id}/complete
complete_delivery(c, delivery_id) ==
    SetDeliveryStatus(c, "complete_delivery", delivery_id, "COMPLETED")

\* ---------------------------------------------------------- delivery items
\* A gated workflow: only an item that is not yet stored is approved.
approve_item_notStored(c, item_id) ==
    /\ Idle(c)
    /\ Call
    /\ UNCHANGED <<delivery, pc, req, it, item, new_total, listed, applied>>
    /\ IF oid(item_id) = InvalidID
       THEN /\ Reply(c, HTTPException("approve_item", 400, "Invalid ID"))
            /\ UNCHANGED deliveryitem
       ELSE IF ~Found(deliveryitem, oid(item_id))
       THEN /\ Reply(c, HTTPException("approve_item", 404, "Item not found"))
            /\ UNCHANGED deliveryitem
       ELSE IF deliveryitem[oid(item_id)].status = "STORED"
       THEN /\ Reply(c, HTTPException("approve_item", 400, "Invalid transition"))
            /\ UNCHANGED deliveryitem
       ELSE /\ deliveryitem' = [deliveryitem EXCEPT ![oid(item_id)].status = "APPROVED"]
            /\ Reply(c, OK("approve_item"))

\* POST /delivery-items/{item_id}/approve
approve_item(c, item_id) ==
    /\ Idle(c)
    /\ Call
    /\ UNCHANGED <<delivery, pc, req, it, item, new_total, listed, applied>>
    /\ IF oid(item_id) = InvalidID
       THEN /\ Reply(c, HTTPException("approve_item", 400, "Invalid ID"))
            /\ UNCHANGED deliveryitem
       ELSE IF ~Found(deliveryitem, oid(item_id))
       THEN /\ Reply(c, HTTPException("approve_item", 404, "Item not found"))
            /\ UNCHANGED deliveryitem
       ELSE /\ deliveryitem' = [deliveryitem EXCEPT ![oid(item_id)].status = "APPROVED"]
            /\ Reply(c, OK("approve_item"))

\* POST /delivery-items/{item_id}/store
store_item(c, item_id, location) ==
    /\ Idle(c)
    /\ Call
    /\ UNCHANGED <<delivery, pc, req, it, item, new_total, listed, applied>>
    /\ IF oid(item_id) = InvalidID
       THEN /\ Reply(c, HTTPException("store_item", 400, "Invalid ID"))
            /\ UNCHANGED deliveryitem
       ELSE IF ~Found(deliveryitem, oid(item_id))
       THEN /\ Reply(c, HTTPException("store_item", 404, "Item not found"))
            /\ UNCHANGED deliveryitem
       ELSE /\ deliveryitem' = [deliveryitem EXCEPT ![oid(item_id)] =
                    [@ EXCEPT !.status = "STORED", !.location = location]]
            /\ Reply(c, OK("store_item"))

\* GET /delivery-items: delivery_id is put into the filter as the string it
\* is, without oid(); the answer is 200 with the list of the items that
\* match, which is not kept here.
list_delivery_items(c, delivery_id) ==
    /\ Idle(c)
    /\ Call
    /\ Reply(c, OK("list_delivery_items"))
    /\ UNCHANGED <<delivery, deliveryitem, pc, req, it, item, new_total, listed, applied>>

\* ---------------------------------------------------------- list deliveries
\* status_in: Optional[List[DeliveryStatus]] = Query(default=None): absent,
\* or a list of valid statuses, of which only the membership matters.
StatusFilters == {NoFilter} \cup [given : {TRUE}, values : SUBSET DeliveryStatus]

\* limit: int = Query(ge=1, ...)
Limits == 1..MaxLimit

\* A filter without the defensive $nin.
Filt_noNin(status_in) ==
    IF status_in.given /\ status_in.values # {}
    THEN [has_in |-> TRUE, in |-> status_in.values, nin |-> {}]
    ELSE [has_in |-> FALSE, in |-> {}, nin |-> {}]

\* if status_in: filt["status"] = {"$in": list(status_in)}
\* filt["status"] = filt.get("status", {"$exists": True})
\* filt["status"]["$nin"] = [..., "RECEIVED"]
Filt(status_in) ==
    IF status_in.given /\ status_in.values # {}
    THEN [has_in |-> TRUE, in |-> status_in.values, nin |-> {"RECEIVED"}]
    ELSE [has_in |-> FALSE, in |-> {}, nin |-> {"RECEIVED"}]

\* A document matches {"status": {"$in": ..., "$nin": ...}} or
\* {"status": {"$exists": True, "$nin": ...}}; every delivery has a status.
Matches(doc, filt) ==
    /\ filt.has_in => doc.status \in filt.in
    /\ doc.status \notin filt.nin

\* db["delivery"].find(filt)
Find(coll, filt) == {o \in DOMAIN coll : Matches(coll[o], filt)}

RECURSIVE Sort(_, _)
\* .sort("created_at", -1): newest first; ObjectIds grow with creation time
Sort(coll, S) ==
    IF S = {} THEN <<>>
    ELSE LET newest == CHOOSE o \in S : \A x \in S : x[2] <= o[2]
         IN <<[_id |-> newest, status |-> coll[newest].status]>> \o Sort(coll, S \ {newest})

\* .limit(limit)
Limit(docs, limit) == SubSeq(docs, 1, IF Len(docs) < limit THEN Len(docs) ELSE limit)

\* GET /deliveries: reads the store and changes nothing
list_deliveries(c, status_in, limit) ==
    /\ Idle(c)
    /\ listed' = [called |-> TRUE, status_in |-> status_in, limit |-> limit,
                  docs |-> Limit(Sort(delivery, Find(delivery, Filt(status_in))), limit)]
    /\ UNCHANGED <<delivery, deliveryitem, pc, req, it, item, new_total, resp, calls, applied>>

\* ------------------------------------------------------------ specification
\* One step of client c: a request it sends, or the next database call of
\* its receive_items call.
Step(c) ==
    \/ \E body \in DeliveryBodies : create_delivery(c, body)
    \/ \E delivery_id \in IdStrings, body \in ItemBodies :
            add_delivery_item(c, delivery_id, DeliveryItemCreateRequest(body))
    \/ \E delivery_id \in IdStrings : receive_items(c, delivery_id)
    \/ \E delivery_id \in IdStrings : list_delivery_items(c, delivery_id)
    \/ find_item(c)
    \/ update_item(c)
    \/ aggregate(c)
    \/ update_delivery(c)
    \/ return_delivery(c)
    \/ \E delivery_id \in IdStrings : send_to_quality(c, delivery_id)
    \/ \E delivery_id \in IdStrings : complete_delivery(c, delivery_id)
    \/ \E item_id \in IdStrings : approve_item(c, item_id)
    \/ \E item_id \in IdStrings, location \in Locations : store_item(c, item_id, location)

\* Requests of the clients interleave database call by database call.
Next == \E c \in Clients : Step(c)

Spec == Init /\ [][Next]_vars

\* Operations run one at a time: a client steps only while no other client
\* has a call in progress.
SeqNext == \E c \in Clients : (\A d \in Clients \ {c} : Idle(d)) /\ Step(c)

SeqSpec == Init /\ [][SeqNext]_vars

\* list_deliveries over every content of the delivery collection, legacy
\* documents with status RECEIVED included: the handler only reads, so it is
\* checked from each store content rather than along the runs of Spec.
Stores ==
    UNION {[D -> [status : DeliveryStatus \cup {"RECEIVED"}, receivedQty : {0}]] :
              D \in SUBSET DeliveryOids}

ListInit ==
    /\ delivery \in Stores
    /\ deliveryitem = [o \in {} |-> 0]
    /\ pc = [c \in Clients |-> "idle"]
    /\ req = [c \in Clients |-> NoReq]
    /\ it = [c \in Clients |-> NoEntry]
    /\ item = [c \in Clients |-> NoItem]
    /\ new_total = [c \in Clients |-> 0]
    /\ resp = NoResp
    /\ calls = 0
    /\ listed = NoList
    /\ applied = [o \in {} |-> 0]

ListNext ==
    \E c \in Clients, status_in \in StatusFilters, limit \in Limits :
        list_deliveries(c, status_in, limit)

ListSpec == ListInit /\ [][ListNext]_vars

\* =================================================================== claims
\* The items whose delivery_id references delivery d: the strings that
\* resolve to d (add_delivery_item accepts each of them for d).
ItemsOf(d) == {i \in DOMAIN deliveryitem : oid(deliveryitem[i].delivery_id) = d}

\* No call is in progress.
Quiescent == \A c \in Clients : Idle(c)

\* Client c takes a step of its receive_items call.
Steps(c) == pc'[c] # pc[c]

\* C1: whenever no call is in progress, each delivery's receivedQty equals
\* the sum of receivedQty over the items whose delivery_id references it.
C1_ReceivedQtyIsSumOfItems ==
    Quiescent =>
        \A d \in DOMAIN delivery :
            delivery[d].receivedQty = SumQty(deliveryitem, ItemsOf(d))

\* C2: with operations run one at a time, when a receive call on delivery D
\* has written the aggregate and is about to return, D.receivedQty equals
\* the sum of receivedQty over all items of D.
C2_AggregateAfterReceive ==
    \A c \in Clients :
        pc[c] = "return" =>
            LET d == oid(req[c].delivery_id)
            IN delivery[d].receivedQty = SumQty(deliveryitem, ItemsOf(d))

PartlyUpdated(c) ==
    /\ pc[c] \in {"find_item", "update_item", "aggregate", "update_delivery"}
    /\ req[c].done > 0

\* C4: no receive call aggregates the items of a delivery while another
\* receive call on the same delivery is between its first item update and
\* its aggregate write.
C4_ReceiveSerialized ==
    [][\A c \in Clients :
        (pc[c] = "aggregate" /\ Steps(c)) =>
            ~ \E d \in Clients \ {c} :
                /\ PartlyUpdated(d)
                /\ oid(req[d].delivery_id) = oid(req[c].delivery_id)]_vars

\* C5: when two concurrent receive calls on the same delivery have both
\* succeeded (each has applied its entries and written its aggregate, and is
\* about to return), the delivery's receivedQty equals the sum of its items'
\* receivedQty.  Both calls name the delivery by the same string, so the
\* items are those each of them aggregates over.
C5_NoLostAggregate ==
    \A c \in Clients : \A d \in Clients \ {c} :
        (/\ pc[c] = "return"
         /\ pc[d] = "return"
         /\ req[c].delivery_id = req[d].delivery_id) =>
            delivery[oid(req[c].delivery_id)].receivedQty
                = SumQty(deliveryitem, Match(req[c].delivery_id))

\* C6: an item's receivedQty is never negative and no step makes it smaller.
C6_ReceivedQtyMonotone ==
    [][\A i \in DOMAIN deliveryitem :
        /\ deliveryitem[i].receivedQty >= 0
        /\ deliveryitem'[i].receivedQty >= deliveryitem[i].receivedQty]_vars

\* Entry `it` of client c fails validation, in the words of the claims: its
\* itemId is malformed, names no item, names an item whose delivery_id is
\* not the delivery_id of the call, or its qty is negative.
EntryFails(c) ==
    \/ ~it[c].itemId.valid
    \/ it[c].itemId.hex \notin DOMAIN deliveryitem
    \/ deliveryitem[it[c].itemId.hex].delivery_id # req[c].delivery_id
    \/ it[c].qty < 0

\* C7: entries are applied in order and the call aborts at the first one
\* that fails validation: the call ends there with an error, the entries
\* not yet read are dropped, the item updates made so far stay, no item and
\* no delivery changes (the aggregate is not recomputed); an entry that
\* passes validation is applied before the next one is read.
C7_AbortAtFirstFailure ==
    [][\A c \in Clients :
        (pc[c] = "find_item" /\ Steps(c)) =>
            IF EntryFails(c)
            THEN /\ pc'[c] = "idle"
                 /\ req'[c] = NoReq
                 /\ resp'.op = "receive_items" /\ resp'.code >= 400
                 /\ deliveryitem' = deliveryitem
                 /\ delivery' = delivery
            ELSE /\ pc'[c] = "update_item"
                 /\ req'[c] = req[c]]_vars

\* C7 witness: a receive call has just failed after applying an entry: an
\* item holds a received quantity that its delivery's aggregate lacks.
C7_Witness ==
    /\ Quiescent
    /\ resp.op = "receive_items" /\ resp.code = 400
    /\ \E i \in DOMAIN deliveryitem :
          /\ deliveryitem[i].status = "RECEIVED"
          /\ deliveryitem[i].receivedQty > 0
          /\ delivery[oid(deliveryitem[i].delivery_id)].receivedQty = 0

\* C8: an entry whose itemId names no item, or an item of another delivery,
\* or whose qty is negative, fails with HTTP 400 and changes no item; and a
\* step of a receive call changes only items of the call's delivery.
C8_InvalidEntryRejected ==
    [][\A c \in Clients :
        /\ (pc[c] = "find_item" /\ Steps(c) /\ EntryFails(c)) =>
                /\ resp'.code = 400
                /\ deliveryitem' = deliveryitem
        /\ (pc[c] # "idle" /\ Steps(c)) =>
                \A i \in DOMAIN deliveryitem :
                    deliveryitem'[i] # deliveryitem[i] =>
                        oid(deliveryitem[i].delivery_id) = oid(req[c].delivery_id)]_vars

\* C8 witness: a receive call on one delivery has just been refused an
\* entry naming an item of another delivery.
C8_Witness ==
    /\ Quiescent
    /\ resp = HTTPException("receive_items", 400, "Item not found for this delivery")
    /\ Cardinality(DOMAIN delivery) = 2
    /\ \E i \in DOMAIN deliveryitem :
          /\ oid(deliveryitem[i].delivery_id) = <<"delivery", 2>>
          /\ deliveryitem[i].receivedQty = 0
          /\ delivery[<<"delivery", 1>>].receivedQty = 0

\* C9: a step that changes the status of a delivery is a successful
\* send-to-quality or complete call, and no step of a receive call.
C9_StatusOnlyByTransitions ==
    [][\A d \in DOMAIN delivery :
        delivery'[d].status # delivery[d].status =>
            /\ pc' = pc
            /\ resp'.op \in {"send_to_quality", "complete_delivery"}
            /\ resp'.code = 200]_vars

\* C9 witness: every item of a delivery is received to its expectedQty or
\* above, and the delivery is still PENDING.
C9_Witness ==
    \E d \in DOMAIN delivery :
        /\ delivery[d].status = "PENDING"
        /\ delivery[d].receivedQty > 0
        /\ ItemsOf(d) # {}
        /\ \A i \in ItemsOf(d) :
              /\ deliveryitem[i].receivedQty > 0
              /\ deliveryitem[i].receivedQty >= deliveryitem[i].expectedQty

\* C10: a step that answers a create delivery request, whatever body the
\* client sends, succeeds and adds exactly one delivery, with status PENDING
\* and receivedQty 0; every delivery and item there was stays as it was; and
\* no other step adds a delivery.
C10_CreateDelivery ==
    [][((calls' # calls /\ pc' = pc /\ resp'.op = "create_delivery")
            \/ DOMAIN delivery' # DOMAIN delivery) =>
        /\ resp' = OK("create_delivery")
        /\ \E new \in DOMAIN delivery' \ DOMAIN delivery :
              /\ DOMAIN delivery' = DOMAIN delivery \cup {new}
              /\ delivery'[new].status = "PENDING"
              /\ delivery'[new].receivedQty = 0
        /\ \A d \in DOMAIN delivery : delivery'[d] = delivery[d]
        /\ deliveryitem' = deliveryitem]_vars

\* C10 witness: a delivery was just created beside a delivery that is no
\* longer PENDING and has received items.
C10_Witness ==
    /\ resp = OK("create_delivery")
    /\ \E d \in DOMAIN delivery :
          /\ delivery[d].status # "PENDING"
          /\ ItemsOf(d) # {}
    /\ \E d \in DOMAIN delivery :
          delivery[d] = [status |-> "PENDING", receivedQty |-> 0]

\* The step is a call of handler op that is answered in one step.
AtomicCall(op) == calls' # calls /\ pc' = pc /\ resp'.op = op

\* The client whose call an atomic step answers: an idle one, and the
\* handlers treat every idle client alike.
Caller == CHOOSE c \in Clients : Idle(c)

\* The step answers 200 and adds exactly one item, PENDING, with receivedQty
\* 0 and a delivery_id that references the delivery of the request; the
\* items there were stay as they were.
ItemCreated(delivery_id) ==
    /\ resp' = OK("add_delivery_item")
    /\ \E new \in DOMAIN deliveryitem' \ DOMAIN deliveryitem :
          /\ DOMAIN deliveryitem' = DOMAIN deliveryitem \cup {new}
          /\ deliveryitem'[new].status = "PENDING"
          /\ deliveryitem'[new].receivedQty = 0
          /\ oid(deliveryitem'[new].delivery_id) = oid(delivery_id)
    /\ \A i \in DOMAIN deliveryitem : deliveryitem'[i] = deliveryitem[i]

\* The step answers 404 and creates no item.
DeliveryNotFound(op) ==
    /\ resp' = HTTPException(op, 404, "Delivery not found")
    /\ deliveryitem' = deliveryitem
    /\ delivery' = delivery

\* C11 as stated: add item on an existing delivery always creates an item
\* with status PENDING, receivedQty 0 and delivery_id that delivery, whatever
\* the body (also without productId and variantId); on a deliveryId that
\* does not resolve it fails with NotFound and creates no item.
C11_AddItemAlwaysCreates ==
    [][AtomicCall("add_delivery_item") =>
        \A delivery_id \in IdStrings, payload \in ItemPayloads :
            add_delivery_item(Caller, delivery_id, payload) =>
                IF Found(delivery, oid(delivery_id))
                THEN ItemCreated(delivery_id)
                ELSE oid(delivery_id) # InvalidID => DeliveryNotFound("add_delivery_item")]_vars

\* C11 amended: add item on an existing delivery with an expectedQty >= 0
\* always creates an item with status PENDING, receivedQty 0 and delivery_id
\* that delivery, whatever the body (also without productId and variantId);
\* with a negative expectedQty it creates no item; on a deliveryId that does
\* not resolve it fails with NotFound and creates no item.
C11_AddItem ==
    [][AtomicCall("add_delivery_item") =>
        \A delivery_id \in IdStrings, payload \in ItemPayloads :
            add_delivery_item(Caller, delivery_id, payload) =>
                IF Found(delivery, oid(delivery_id))
                THEN IF payload.expectedQty >= 0
                     THEN ItemCreated(delivery_id)
                     ELSE resp'.code # 200 /\ deliveryitem' = deliveryitem
                ELSE oid(delivery_id) # InvalidID => DeliveryNotFound("add_delivery_item")]_vars

\* C11 witness: an item was just added to a delivery that is no longer
\* PENDING.
C11_Witness ==
    /\ resp = OK("add_delivery_item")
    /\ \E i \in DOMAIN deliveryitem :
          /\ deliveryitem[i].status = "PENDING"
          /\ deliveryitem[i].receivedQty = 0
          /\ oid(deliveryitem[i].delivery_id) \in DOMAIN delivery
          /\ delivery[oid(deliveryitem[i].delivery_id)].status # "PENDING"

\* The step answers 200 and sets the status of delivery d, whatever it was,
\* changing neither its receivedQty nor another delivery nor any item.
DeliveryStatusSet(op, d, status) ==
    /\ resp' = OK(op)
    /\ delivery' = [delivery EXCEPT ![d] =
            [status |-> status, receivedQty |-> delivery[d].receivedQty]]
    /\ deliveryitem' = deliveryitem

\* C12: send-to-quality sets an existing delivery's status to
\* IN_QUALITY_CHECK and complete sets it to COMPLETED, from any current
\* status and whatever its items, changing neither its receivedQty nor any
\* item; on a deliveryId that does not resolve each fails with NotFound and
\* changes no state.
C12_DeliveryTransitions ==
    [][/\ AtomicCall("send_to_quality") =>
            \A delivery_id \in IdStrings :
                send_to_quality(Caller, delivery_id) =>
                    IF Found(delivery, oid(delivery_id))
                    THEN DeliveryStatusSet("send_to_quality", oid(delivery_id), "IN_QUALITY_CHECK")
                    ELSE oid(delivery_id) # InvalidID => DeliveryNotFound("send_to_quality")
       /\ AtomicCall("complete_delivery") =>
            \A delivery_id \in IdStrings :
                complete_delivery(Caller, delivery_id) =>
                    IF Found(delivery, oid(delivery_id))
                    THEN DeliveryStatusSet("complete_delivery", oid(delivery_id), "COMPLETED")
                    ELSE oid(delivery_id) # InvalidID => DeliveryNotFound("complete_delivery")]_vars

\* C12 witness: a delivery was sent to quality check while an item of it is
\* still PENDING with nothing received.
C12_Witness ==
    /\ resp = OK("send_to_quality")
    /\ \E d \in DOMAIN delivery :
          /\ delivery[d].status = "IN_QUALITY_CHECK"
          /\ \E i \in ItemsOf(d) : deliveryitem[i].status = "PENDING"

\* The step answers 404 "Item not found" and changes no state.
ItemNotFound(op) ==
    /\ resp' = HTTPException(op, 404, "Item not found")
    /\ deliveryitem' = deliveryitem
    /\ delivery' = delivery

\* The step answers 200 and sets the status of item i, whatever it was, and
\* its location, changing neither its receivedQty, expectedQty or
\* delivery_id, nor another item, nor any delivery.
ItemStatusSet(op, i, status, location) ==
    /\ resp' = OK(op)
    /\ deliveryitem' = [deliveryitem EXCEPT ![i] =
            [delivery_id |-> deliveryitem[i].delivery_id,
             expectedQty |-> deliveryitem[i].expectedQty,
             receivedQty |-> deliveryitem[i].receivedQty,
             status |-> status, location |-> location]]
    /\ delivery' = delivery

\* C13: approve sets an existing item's status to APPROVED and store sets
\* it to STORED with the given location, from any current status, leaving
\* the item's receivedQty and expectedQty and every delivery unchanged; on
\* an itemId that does not resolve each fails with NotFound and changes no
\* state.
C13_ItemTransitions ==
    [][/\ AtomicCall("approve_item") =>
            \A item_id \in IdStrings :
                approve_item(Caller, item_id) =>
                    IF Found(deliveryitem, oid(item_id))
                    THEN ItemStatusSet("approve_item", oid(item_id), "APPROVED",
                                       deliveryitem[oid(item_id)].location)
                    ELSE oid(item_id) # InvalidID => ItemNotFound("approve_item")
       /\ AtomicCall("store_item") =>
            \A item_id \in IdStrings, location \in Locations :
                store_item(Caller, item_id, location) =>
                    IF Found(deliveryitem, oid(item_id))
                    THEN ItemStatusSet("store_item", oid(item_id), "STORED", location)
                    ELSE oid(item_id) # InvalidID => ItemNotFound("store_item")]_vars

\* C13 witness: an item that had been stored (it has a location) was just
\* approved.
C13_Witness ==
    /\ resp = OK("approve_item")
    /\ \E i \in DOMAIN deliveryitem :
          /\ deliveryitem[i].status = "APPROVED"
          /\ deliveryitem[i].location \in Locations

\* The status filter in effect: given and not empty.
Filtered == listed.status_in.given /\ listed.status_in.values # {}

\* C14: the list a list deliveries call returns holds no delivery whose
\* stored status is RECEIVED, whatever the store holds and whatever the
\* status filter (absent, empty or any set of valid statuses); with a status
\* filter it holds only deliveries whose status is in the filter; it holds at
\* most limit deliveries, each a stored delivery, none twice.
C14_ListDeliveries ==
    listed.called =>
        /\ \A k \in 1..Len(listed.docs) :
              /\ listed.docs[k]._id \in DOMAIN delivery
              /\ listed.docs[k].status = delivery[listed.docs[k]._id].status
              /\ delivery[listed.docs[k]._id].status # "RECEIVED"
              /\ Filtered => delivery[listed.docs[k]._id].status \in listed.status_in.values
              /\ \A j \in 1..Len(listed.docs) : listed.docs[j]._id = listed.docs[k]._id => j = k
        /\ Len(listed.docs) <= listed.limit

\* C14 witness: the store holds a RECEIVED delivery and another one, and a
\* list call without a status filter returned one delivery.
C14_Witness ==
    /\ listed.called
    /\ ~listed.status_in.given
    /\ Len(listed.docs) = 1
    /\ listed.limit > 1
    /\ \E d \in DOMAIN delivery : delivery[d].status = "RECEIVED"

\* The answer to an identifier with invalid syntax.
InvalidIdError(op) == HTTPException(op, 400, "Invalid ID")

\* The step answers a request whose identifier is id_str as C15 requires:
\* with the client error of invalid syntax and no change of the store when
\* id_str is malformed, and with another client error when id_str is well
\* formed and names no document of coll.
IdErrors(op, id_str, coll) ==
    /\ ~id_str.valid =>
          /\ resp' = InvalidIdError(op)
          /\ resp'.code \in 400..499
          /\ delivery' = delivery /\ deliveryitem' = deliveryitem
    /\ (id_str.valid /\ ~Found(coll, id_str.hex)) =>
          /\ resp'.code \in 400..499
          /\ resp' # InvalidIdError(op)

\* C15: every operation that takes an identifier answers an identifier with
\* invalid syntax with a client error that differs from the error it answers
\* when a well-formed identifier does not resolve; so does receive for the
\* itemId of each entry of its batch.
C15_InvalidIdDistinct ==
    [][/\ AtomicCall("add_delivery_item") =>
            \A delivery_id \in IdStrings, payload \in ItemPayloads :
                add_delivery_item(Caller, delivery_id, payload) =>
                    IdErrors("add_delivery_item", delivery_id, delivery)
       /\ AtomicCall("receive_items") =>
            \A delivery_id \in IdStrings :
                receive_items(Caller, delivery_id) =>
                    IdErrors("receive_items", delivery_id, delivery)
       /\ AtomicCall("send_to_quality") =>
            \A delivery_id \in IdStrings :
                send_to_quality(Caller, delivery_id) =>
                    IdErrors("send_to_quality", delivery_id, delivery)
       /\ AtomicCall("complete_delivery") =>
            \A delivery_id \in IdStrings :
                complete_delivery(Caller, delivery_id) =>
                    IdErrors("complete_delivery", delivery_id, delivery)
       /\ AtomicCall("approve_item") =>
            \A item_id \in IdStrings :
                approve_item(Caller, item_id) =>
                    IdErrors("approve_item", item_id, deliveryitem)
       /\ AtomicCall("store_item") =>
            \A item_id \in IdStrings, location \in Locations :
                store_item(Caller, item_id, location) =>
                    IdErrors("store_item", item_id, deliveryitem)
       /\ AtomicCall("list_delivery_items") =>
            \A delivery_id \in IdStrings :
                list_delivery_items(Caller, delivery_id) =>
                    IdErrors("list_delivery_items", delivery_id, delivery)
       /\ \A c \in Clients :
            (pc[c] = "find_item" /\ Steps(c)) =>
                IdErrors("receive_items", it[c].itemId, deliveryitem)]_vars

\* C16: every item's expectedQty is non-negative and fixed at creation: add
\* item with a negative expectedQty creates no item, and no step of any
\* operation removes an item or changes the expectedQty of an existing one.
C16_ExpectedQtyFixed ==
    [][/\ \A i \in DOMAIN deliveryitem' : deliveryitem'[i].expectedQty >= 0
       /\ \A i \in DOMAIN deliveryitem :
            /\ i \in DOMAIN deliveryitem'
            /\ deliveryitem'[i].expectedQty = deliveryitem[i].expectedQty
       /\ AtomicCall("add_delivery_item") =>
            \A delivery_id \in IdStrings,
               payload \in {p \in ItemPayloads : p.expectedQty < 0} :
                add_delivery_item(Caller, delivery_id, payload) =>
                    deliveryitem' = deliveryitem]_vars

\* C16 witness: add item was refused with the model's validation error
\* while an item that has been received exists.
C16_Witness ==
    /\ resp = HTTPException("add_delivery_item", 500, "Internal Server Error")
    /\ \E i \in DOMAIN deliveryitem :
          /\ deliveryitem[i].receivedQty > 0
          /\ deliveryitem[i].expectedQty >= 0

\* C17: with operations run one at a time, a receive entry with qty >= 0
\* that names an item stored under the delivery_id of the call never fails
\* and is never capped: the call goes on to the item's update, which stores
\* the previous receivedQty plus qty whatever the item's expectedQty is.
C17_OverReceiptPermitted ==
    [][\A c \in Clients :
        /\ (/\ pc[c] = "find_item" /\ Steps(c)
            /\ it[c].itemId.valid
            /\ it[c].itemId.hex \in Match(req[c].delivery_id)
            /\ it[c].qty >= 0) =>
                /\ pc'[c] = "update_item"
                /\ resp' = resp
                /\ item'[c]._id = it[c].itemId.hex
                /\ item'[c].new_received =
                        deliveryitem[it[c].itemId.hex].receivedQty + it[c].qty
        /\ (pc[c] = "update_item" /\ Steps(c)) =>
                deliveryitem'[item[c]._id].receivedQty =
                        deliveryitem[item[c]._id].receivedQty + it[c].qty]_vars

\* C17 witness: an item holds more than was expected of it, and the receive
\* call that brought it there has succeeded.
C17_Witness ==
    /\ resp = OK("receive_items")
    /\ \E i \in DOMAIN deliveryitem :
          deliveryitem[i].receivedQty > deliveryitem[i].expectedQty

\* The place of an item status in the lifecycle order
\* PENDING < RECEIVED < QUALITY_CHECK < APPROVED < STORED.
Rank(status) ==
    CASE status = "PENDING" -> 1
      [] status = "RECEIVED" -> 2
      [] status = "QUALITY_CHECK" -> 3
      [] status = "APPROVED" -> 4
      [] status = "STORED" -> 5

\* The step moves item i to an earlier status.
Regresses(i) == Rank(deliveryitem'[i].status) < Rank(deliveryitem[i].status)

\* C18 as stated: no step of any operation moves an item to an earlier
\* status of the lifecycle order than the one it had.
C18_NoRegress ==
    [][\A i \in DOMAIN deliveryitem : ~Regresses(i)]_vars

\* C18 amended: with operations run one at a time, an item moves to an
\* earlier status only by the update of a receive entry with qty > 0, which
\* sets RECEIVED, or by approve, which sets an item that was STORED to
\* APPROVED; no other step regresses an item.
C18_RegressOnlyByOverwrite ==
    [][\A i \in DOMAIN deliveryitem :
        Regresses(i) =>
            \/ /\ \E c \in Clients :
                    /\ pc[c] = "update_item" /\ Steps(c)
                    /\ item[c]._id = i
                    /\ it[c].qty > 0
               /\ deliveryitem'[i].status = "RECEIVED"
            \/ /\ AtomicCall("approve_item")
               /\ deliveryitem[i].status = "STORED"
               /\ deliveryitem'[i].status = "APPROVED"]_vars

\* C18 witness: an item that had been stored (it has a location) is
\* RECEIVED again after a successful receive call.
C18_Witness ==
    /\ resp = OK("receive_items")
    /\ \E i \in DOMAIN deliveryitem :
          /\ deliveryitem[i].status = "RECEIVED"
          /\ deliveryitem[i].location \in Locations

\* C19: no item increment is lost: when the concurrent receive calls have
\* all succeeded and are about to return, each item's receivedQty is its
\* value at creation, 0, plus the sum of every qty the receive calls have
\* written to it.
C19_NoLostIncrement ==
    (\A c \in Clients : pc[c] = "return") =>
        \A i \in DOMAIN deliveryitem : deliveryitem[i].receivedQty = applied[i]

\* C20: starting from the empty store, in every state every delivery's
\* status is PENDING, IN_QUALITY_CHECK or COMPLETED and every item's status
\* is PENDING, RECEIVED, APPROVED or STORED: DRAFT and QUALITY_CHECK are
\* never assigned.
C20_StatusesAssigned ==
    /\ \A d \in DOMAIN delivery :
          delivery[d].status \in {"PENDING", "IN_QUALITY_CHECK", "COMPLETED"}
    /\ \A i \in DOMAIN deliveryitem :
          deliveryitem[i].status \in {"PENDING", "RECEIVED", "APPROVED", "STORED"}

\* C20 witness: a delivery has been sent to quality check or completed and
\* an item of it has been approved or stored.
C20_Witness ==
    \E d \in DOMAIN delivery :
        /\ delivery[d].status \in {"IN_QUALITY_CHECK", "COMPLETED"}
        /\ \E i \in ItemsOf(d) : deliveryitem[i].status \in {"APPROVED", "STORED"}

=============================================================================
